---- MODULE Spec2Model ----
(***************************************************************************)
(* EmbeddingService.create_embedding                                       *)
(* (src/app/service/embedding/embedding_service.py).                       *)
(*                                                                         *)
(* One call of the coroutine is modelled statement by statement: the       *)
(* preview of the input, the try block with the remote call, the two       *)
(* except handlers, the finally block with its two awaited log writes, and *)
(* the delivery of the pending result (a return value or an exception) to  *)
(* the caller.  The remote API and the two log sinks are the environment:  *)
(* the remote call returns a response or raises, and each awaited sink     *)
(* call returns or raises.                                                 *)
(*                                                                         *)
(* A str is a sequence of one-character strings; a list of str is a        *)
(* sequence of such sequences.  An Optional[int] is <<>> (None) or <<n>>.  *)
(* The clock readings (start_time, request_datetime, latency_ms) are not   *)
(* modelled: no control flow depends on them.                              *)
(***************************************************************************)
EXTENDS Integers, Sequences, FiniteSets, TLC

VARIABLES
    input_text,       \* argument: [kind |-> "str" | "list", val |-> ...]
    model,            \* argument
    api_key,          \* argument
    pc,               \* position of the coroutine
    is_success,       \* local, line 25
    status_code,      \* local, line 26: None or <<n>>
    response,         \* local, line 27
    error_log_msg,    \* local, line 28
    request_msg_log,  \* local, lines 30-35
    exc,              \* exception in flight inside the try statement
    pending,          \* how the try statement will complete after finally
    remote,           \* what the remote call did (ghost, for the properties)
    apiCalls,         \* inputs sent to client.embeddings.create
    errorLogs,        \* arguments of the add_error_log calls
    requestLogs,      \* arguments of the add_request_log calls
    events,           \* order of the observable events of the call
    result            \* what reached the caller

vars == <<input_text, model, api_key, pc, is_success, status_code, response,
          error_log_msg, request_msg_log, exc, pending, remote, apiCalls,
          errorLogs, requestLogs, events, result>>

(***************************************************************************)
(* Bounds of the model.                                                    *)
(***************************************************************************)
\* longest list handed to create_embedding
MaxListLen == 7
\* how far a string may exceed a truncation limit
MaxExtra == 2
\* number of fragments an error text is assembled from
MaxPieces == 4

(***************************************************************************)
(* Program constants.                                                      *)
(***************************************************************************)
\* line 31: str(item)[:100]
ItemCap == 100
\* line 31/32: input_text[:5]
MaxItems == 5
\* line 35: input_text[:1000]
StrCap == 1000
\* line 42
OkStatus == 200
\* line 59
DefaultStatus == 500

None == <<>>
Some(n) == <<n>>

\* the literal "..." of lines 31, 33 and 35
Ellipsis == <<".", ".", ".">>

Min(a, b) == IF a < b THEN a ELSE b

(***************************************************************************)
(* Inputs.                                                                 *)
(***************************************************************************)
Alphabet == <<"a", "b", ".">>

\* a string of n characters; k shifts the content
MkStr(n, k) == [i \in 1..n |-> Alphabet[((i + k) % Len(Alphabet)) + 1]]

ItemPool == << MkStr(ItemCap + 1, 0), MkStr(0, 0), MkStr(ItemCap, 1),
               MkStr(ItemCap + MaxExtra, 2), MkStr(1, 0) >>

\* a list of n items taken round-robin from the pool, starting at k
MkList(n, k) == [i \in 1..n |-> ItemPool[((i + k) % Len(ItemPool)) + 1]]

StrInputs ==
    { [kind |-> "str", val |-> MkStr(n, 0)] :
        n \in {0, 1, StrCap, StrCap + 1, StrCap + MaxExtra} }

ListInputs ==
    { [kind |-> "list", val |-> MkList(n, k)] :
        n \in 0..MaxListLen, k \in 0..2 }

Inputs == StrInputs \cup ListInputs

\* The failure of the remote call does not depend on the input.  To keep the
\* state space small the whole set of error texts is explored under this one
\* input, and a few representative texts under the others.
SmallInput == [kind |-> "str", val |-> MkStr(1, 0)]

Models == {"text-embed-1"}
Keys == {"k1"}
Responses == {"resp1", "resp2"}
NoResponse == "None"

(***************************************************************************)
(* The input preview, lines 29-35.                                         *)
(***************************************************************************)
\* faulty variant of TruncItem: >= in place of >
TruncItem_OffByOne(item) ==
    IF Len(item) >= ItemCap THEN SubSeq(item, 1, ItemCap) \o Ellipsis ELSE item

\* line 31: str(item)[:100] + "..." if len(str(item)) > 100 else str(item)
TruncItem(item) ==
    IF Len(item) > ItemCap THEN SubSeq(item, 1, ItemCap) \o Ellipsis ELSE item

\* line 35: input_text[:1000] + "..." if len(input_text) > 1000 else input_text
TruncStr(s) ==
    IF Len(s) > StrCap THEN SubSeq(s, 1, StrCap) \o Ellipsis ELSE s

\* lines 30-35
Preview(inp) ==
    IF inp.kind = "list"
    THEN LET head == SubSeq(inp.val, 1, Min(MaxItems, Len(inp.val)))
             items == [i \in 1..Len(head) |-> TruncItem(head[i])]
         IN  [input_truncated |->
                IF Len(inp.val) > MaxItems THEN Append(items, Ellipsis)
                                           ELSE items]
    ELSE [input_truncated |-> TruncStr(inp.val)]

(***************************************************************************)
(* re.search(r"status code (\d+)", str(e)) and int(match.group(1)),        *)
(* lines 55-59.                                                            *)
(***************************************************************************)
Literal == <<"s", "t", "a", "t", "u", "s", " ", "c", "o", "d", "e", " ">>

Digits == <<"0", "1", "2", "3", "4", "5", "6", "7", "8", "9">>

IsDigit(c) == \E d \in 1..Len(Digits) : Digits[d] = c

DigitVal(c) == (CHOOSE d \in 1..Len(Digits) : Digits[d] = c) - 1

\* the pattern matches at position i: the literal, then at least one digit
MatchesAt(s, i) ==
    /\ i + Len(Literal) <= Len(s)
    /\ SubSeq(s, i, i + Len(Literal) - 1) = Literal
    /\ IsDigit(s[i + Len(Literal)])

RECURSIVE SearchDown(_, _)
SearchDown(s, i) ==
    IF i < 1 THEN 0
    ELSE IF MatchesAt(s, i) THEN i
    ELSE SearchDown(s, i - 1)

\* faulty variant of SearchFrom: the last match in place of the first
SearchFrom_Last(s, i) == SearchDown(s, Len(s))

\* re.search scans from the left; 0 stands for "no match"
RECURSIVE SearchFrom(_, _)
SearchFrom(s, i) ==
    IF i > Len(s) THEN 0
    ELSE IF MatchesAt(s, i) THEN i
    ELSE SearchFrom(s, i + 1)

\* \d+ is greedy: last index of the run of digits that starts at i
RECURSIVE DigitRunEnd(_, _)
DigitRunEnd(s, i) ==
    IF i + 1 <= Len(s) /\ IsDigit(s[i + 1]) THEN DigitRunEnd(s, i + 1) ELSE i

\* int() of a string of digits
RECURSIVE ToInt(_)
ToInt(ds) ==
    IF ds = <<>> THEN 0
    ELSE 10 * ToInt(SubSeq(ds, 1, Len(ds) - 1)) + DigitVal(ds[Len(ds)])

\* lines 55-59
ParseStatus(text) ==
    LET m == SearchFrom(text, 1)
    IN  IF m # 0
        THEN LET first == m + Len(Literal)
             IN  ToInt(SubSeq(text, first, DigitRunEnd(text, first)))
        ELSE DefaultStatus

(***************************************************************************)
(* Failures.                                                               *)
(***************************************************************************)
MkExc(k, sc, t) == [kind |-> k, status_code |-> sc, text |-> t]

NoExc == MkExc("none", None, <<>>)

UpperLiteral == <<"S", "t", "a", "t", "u", "s", " ", "c", "o", "d", "e", " ">>

Pieces == << Literal, <<"5">>, <<"0">>, <<"x">>, UpperLiteral >>

RECURSIVE TextsOf(_)
TextsOf(n) ==
    IF n = 0 THEN { <<>> }
    ELSE LET shorter == TextsOf(n - 1)
         IN  shorter \cup
             { t \o Pieces[p] : t \in shorter, p \in 1..Len(Pieces) }

AllTexts == TextsOf(MaxPieces)

FewTexts == { <<>>, Literal \o <<"5", "0">>, <<"x">> }

TextsFor(inp) == IF inp = SmallInput THEN AllTexts ELSE FewTexts

ProviderCodes == {400, 429, 503}

\* openai.APIStatusError: carries the status code of the HTTP response
StructuredErrors ==
    { MkExc("APIStatusError", Some(s), <<"x">>) : s \in ProviderCodes }

\* any other subclass of Exception
GenericErrors(inp) == { MkExc("Exception", None, t) : t \in TextsFor(inp) }

\* a BaseException that is not an Exception (KeyboardInterrupt, SystemExit)
Interrupts == { MkExc("BaseException", None, <<>>) }

RemoteErrors(inp) == StructuredErrors \cup GenericErrors(inp) \cup Interrupts

\* what an awaited log sink may raise (database failure, cancellation)
SinkError == MkExc("SinkError", None, <<>>)

Completion(k, v, e) == [kind |-> k, value |-> v, exc |-> e]

NotCompleted == Completion("none", NoResponse, NoExc)

Init ==
    /\ input_text \in Inputs
    /\ model \in Models
    /\ api_key \in Keys
    /\ pc = "start"
    /\ is_success = FALSE
    /\ status_code = None
    /\ response = NoResponse
    /\ error_log_msg = <<>>
    /\ request_msg_log = [input_truncated |-> <<>>]
    /\ exc = NoExc
    /\ pending = NotCompleted
    /\ remote = NotCompleted
    /\ apiCalls = <<>>
    /\ errorLogs = <<>>
    /\ requestLogs = <<>>
    /\ events = <<>>
    /\ result = NotCompleted

args == <<input_text, model, api_key>>
logs == <<errorLogs, requestLogs>>

\* lines 23-35: the locals and the preview
Prepare ==
    /\ pc = "start"
    /\ is_success' = FALSE
    /\ status_code' = None
    /\ response' = NoResponse
    /\ error_log_msg' = <<>>
    /\ request_msg_log' = Preview(input_text)
    /\ pc' = "try"
    /\ UNCHANGED <<args, exc, pending, remote, apiCalls, logs, events, result>>

\* faulty variant of RemoteReturns: line 42 missing
RemoteReturns_NoStatus ==
    /\ pc = "try"
    /\ \E r \in Responses :
        /\ apiCalls' = Append(apiCalls, [input |-> input_text, model |-> model])
        /\ events' = Append(events, "api")
        /\ remote' = Completion("return", r, NoExc)
        /\ response' = r
        /\ is_success' = TRUE
        /\ pending' = Completion("return", r, NoExc)
    /\ pc' = "finally"
    /\ UNCHANGED <<args, status_code, error_log_msg, request_msg_log, exc,
                   logs, result>>

\* lines 39-43: the remote call returns.  Building the client (line 39) is
\* part of the step: with a str api_key the constructor does not raise.
RemoteReturns ==
    /\ pc = "try"
    /\ \E r \in Responses :
        /\ apiCalls' = Append(apiCalls, [input |-> input_text, model |-> model])
        /\ events' = Append(events, "api")
        /\ remote' = Completion("return", r, NoExc)
        /\ response' = r
        /\ is_success' = TRUE
        /\ status_code' = Some(OkStatus)
        /\ pending' = Completion("return", r, NoExc)
    /\ pc' = "finally"
    /\ UNCHANGED <<args, error_log_msg, request_msg_log, exc, logs, result>>

\* lines 39-40: the remote call raises
RemoteRaises ==
    /\ pc = "try"
    /\ \E e \in RemoteErrors(input_text) :
        /\ apiCalls' = Append(apiCalls, [input |-> input_text, model |-> model])
        /\ events' = Append(events, "api")
        /\ remote' = Completion("raise", NoResponse, e)
        /\ exc' = e
    /\ pc' = "except"
    /\ UNCHANGED <<args, is_success, status_code, response, error_log_msg,
                   request_msg_log, pending, logs, result>>

\* lines 44-49
ExceptAPIStatusError ==
    /\ pc = "except"
    /\ exc.kind = "APIStatusError"
    /\ is_success' = FALSE
    /\ status_code' = exc.status_code
    /\ error_log_msg' = <<"OpenAI API error: ">> \o exc.text
    /\ pending' = Completion("raise", NoResponse, exc)
    /\ pc' = "finally"
    /\ UNCHANGED <<args, response, request_msg_log, exc, remote, apiCalls,
                   logs, events, result>>

\* faulty variant of ExceptException: the call is tried a second time
ExceptException_Retry ==
    /\ pc = "except"
    /\ exc.kind = "Exception"
    /\ is_success' = FALSE
    /\ error_log_msg' = <<"Generic error: ">> \o exc.text
    /\ status_code' = Some(ParseStatus(exc.text))
    /\ pending' = Completion("raise", NoResponse, exc)
    /\ pc' = IF Len(apiCalls) < 2 THEN "try" ELSE "finally"
    /\ UNCHANGED <<args, response, request_msg_log, exc, remote, apiCalls,
                   logs, events, result>>

\* faulty variant of ExceptException: lines 58-59 missing
ExceptException_NoDefault ==
    /\ pc = "except"
    /\ exc.kind = "Exception"
    /\ is_success' = FALSE
    /\ error_log_msg' = <<"Generic error: ">> \o exc.text
    /\ status_code' = IF SearchFrom(exc.text, 1) # 0
                      THEN Some(ParseStatus(exc.text))
                      ELSE status_code
    /\ pending' = Completion("raise", NoResponse, exc)
    /\ pc' = "finally"
    /\ UNCHANGED <<args, response, request_msg_log, exc, remote, apiCalls,
                   logs, events, result>>

\* lines 50-60
ExceptException ==
    /\ pc = "except"
    /\ exc.kind = "Exception"
    /\ is_success' = FALSE
    /\ error_log_msg' = <<"Generic error: ">> \o exc.text
    /\ status_code' = Some(ParseStatus(exc.text))
    /\ pending' = Completion("raise", NoResponse, exc)
    /\ pc' = "finally"
    /\ UNCHANGED <<args, response, request_msg_log, exc, remote, apiCalls,
                   logs, events, result>>

\* lines 44, 50: neither handler matches, the exception goes on to finally
Uncaught ==
    /\ pc = "except"
    /\ exc.kind \notin {"APIStatusError", "Exception"}
    /\ pending' = Completion("raise", NoResponse, exc)
    /\ pc' = "finally"
    /\ UNCHANGED <<args, is_success, status_code, response, error_log_msg,
                   request_msg_log, exc, remote, apiCalls, logs, events,
                   result>>

\* faulty variant of Finally: the test of line 64 missing
Finally_AlwaysErrorLog ==
    /\ pc = "finally"
    /\ pc' = "add_error_log"
    /\ UNCHANGED <<args, is_success, status_code, response, error_log_msg,
                   request_msg_log, exc, pending, remote, apiCalls, logs,
                   events, result>>

\* lines 61-64
Finally ==
    /\ pc = "finally"
    /\ pc' = IF ~is_success THEN "add_error_log" ELSE "add_request_log"
    /\ UNCHANGED <<args, is_success, status_code, response, error_log_msg,
                   request_msg_log, exc, pending, remote, apiCalls, logs,
                   events, result>>

\* lines 66-73: the call of add_error_log
AddErrorLog ==
    /\ pc = "add_error_log"
    /\ errorLogs' = Append(errorLogs,
          [gemini_key |-> api_key, model_name |-> model,
           error_type |-> "openai-embedding", error_log |-> error_log_msg,
           error_code |-> status_code, request_msg |-> request_msg_log])
    /\ events' = Append(events, "error_log_begin")
    /\ pc' = "await_error_log"
    /\ UNCHANGED <<args, is_success, status_code, response, error_log_msg,
                   request_msg_log, exc, pending, remote, apiCalls,
                   requestLogs, result>>

\* line 66: the awaited add_error_log returns
ErrorLogReturns ==
    /\ pc = "await_error_log"
    /\ events' = Append(events, "error_log_end")
    /\ pc' = "add_request_log"
    /\ UNCHANGED <<args, is_success, status_code, response, error_log_msg,
                   request_msg_log, exc, pending, remote, apiCalls, logs,
                   result>>

\* line 66: the awaited add_error_log raises; the exception leaves the
\* finally block and replaces the pending one
ErrorLogRaises ==
    /\ pc = "await_error_log"
    /\ events' = Append(events, "error_log_end")
    /\ pending' = Completion("raise", NoResponse, SinkError)
    /\ pc' = "exit"
    /\ UNCHANGED <<args, is_success, status_code, response, error_log_msg,
                   request_msg_log, exc, remote, apiCalls, logs, result>>

\* faulty variant of AddRequestLog: the write is started and not awaited
AddRequestLog_NotAwaited ==
    /\ pc = "add_request_log"
    /\ requestLogs' = Append(requestLogs,
          [model_name |-> model, api_key |-> api_key,
           is_success |-> is_success, status_code |-> status_code])
    /\ events' = Append(events, "request_log_begin")
    /\ pc' = "exit"
    /\ UNCHANGED <<args, is_success, status_code, response, error_log_msg,
                   request_msg_log, exc, pending, remote, apiCalls,
                   errorLogs, result>>

\* lines 75-82: the call of add_request_log
AddRequestLog ==
    /\ pc = "add_request_log"
    /\ requestLogs' = Append(requestLogs,
          [model_name |-> model, api_key |-> api_key,
           is_success |-> is_success, status_code |-> status_code])
    /\ events' = Append(events, "request_log_begin")
    /\ pc' = "await_request_log"
    /\ UNCHANGED <<args, is_success, status_code, response, error_log_msg,
                   request_msg_log, exc, pending, remote, apiCalls,
                   errorLogs, result>>

\* line 75: the awaited add_request_log returns
RequestLogReturns ==
    /\ pc = "await_request_log"
    /\ events' = Append(events, "request_log_end")
    /\ pc' = "exit"
    /\ UNCHANGED <<args, is_success, status_code, response, error_log_msg,
                   request_msg_log, exc, pending, remote, apiCalls, logs,
                   result>>

\* line 75: the awaited add_request_log raises; the exception replaces the
\* pending return value or exception
RequestLogRaises ==
    /\ pc = "await_request_log"
    /\ events' = Append(events, "request_log_end")
    /\ pending' = Completion("raise", NoResponse, SinkError)
    /\ pc' = "exit"
    /\ UNCHANGED <<args, is_success, status_code, response, error_log_msg,
                   request_msg_log, exc, remote, apiCalls, logs, result>>

\* the end of the try statement: the pending return or raise reaches the caller
Exit ==
    /\ pc = "exit"
    /\ result' = pending
    /\ events' = Append(events, "finish")
    /\ pc' = "done"
    /\ UNCHANGED <<args, is_success, status_code, response, error_log_msg,
                   request_msg_log, exc, pending, remote, apiCalls, logs>>

Next ==
    \/ Prepare
    \/ RemoteReturns
    \/ RemoteRaises
    \/ ExceptAPIStatusError
    \/ ExceptException
    \/ Uncaught
    \/ Finally
    \/ AddErrorLog
    \/ ErrorLogReturns
    \/ ErrorLogRaises
    \/ AddRequestLog
    \/ RequestLogReturns
    \/ RequestLogRaises
    \/ Exit

Spec == Init /\ [][Next]_vars

(***************************************************************************)
(* Properties.                                                             *)
(***************************************************************************)
Done == pc = "done"

RemoteFailed == remote.kind = "raise"
RemoteSucceeded == remote.kind = "return"

\* C1: when the call has finished, whatever its outcome, add_request_log
\* has been called exactly once.
C1_ExactlyOneRequestLog == Done => Len(requestLogs) = 1

C3_StructuredErrorReported ==
    (Done /\ RemoteFailed /\ remote.exc.kind = "APIStatusError") =>
        /\ result = remote
        /\ Len(errorLogs) = 1
        /\ errorLogs[1].error_code = remote.exc.status_code
        /\ Len(requestLogs) = 1
        /\ requestLogs[1].is_success = FALSE
        /\ requestLogs[1].status_code = remote.exc.status_code

C5_OriginalFailurePropagates == (Done /\ RemoteFailed) => result = remote

\* positions of an event in the order of events
At(e) == { i \in 1..Len(events) : events[i] = e }

\* a write that began before position j also ended before position j
EndedBefore(begin, end, j) ==
    \A b \in At(begin) : b < j => \E d \in At(end) : b < d /\ d < j

\* C6: the remote call precedes every log write, the error log write has
\* completed when the request log write begins, and every log write has
\* completed when the call finishes.
C6_Ordering ==
    /\ \A j \in At("error_log_begin") \cup At("request_log_begin") :
          \E i \in At("api") : i < j
    /\ \A j \in At("request_log_begin") :
          /\ \A b \in At("error_log_begin") : b < j
          /\ EndedBefore("error_log_begin", "error_log_end", j)
    /\ \A j \in At("finish") :
          /\ j = Len(events)
          /\ EndedBefore("error_log_begin", "error_log_end", j)
          /\ EndedBefore("request_log_begin", "request_log_end", j)

C6_Witness ==
    /\ Done
    /\ events = <<"api", "error_log_begin", "error_log_end",
                  "request_log_begin", "request_log_end", "finish">>

\* C7: the remote API is called exactly once per call of create_embedding:
\* never twice, and once as soon as the try block has been left.
C7_OneRemoteCall ==
    /\ Len(apiCalls) <= 1
    /\ pc \notin {"start", "try"} => Len(apiCalls) = 1

C7_Witness ==
    /\ Done
    /\ RemoteFailed
    /\ remote.exc.kind = "Exception"
    /\ Len(apiCalls) = 1

\* "status code <digits>" occurs in t at position i
Occurs(t, i) ==
    /\ i >= 1
    /\ i + 12 <= Len(t)
    /\ \A k \in 1..12 : t[i + k - 1] = Literal[k]
    /\ t[i + 12] \in {"0", "1", "2", "3", "4", "5", "6", "7", "8", "9"}

HasPattern(t) == \E i \in 1..Len(t) : Occurs(t, i)

FirstOccurrence(t) ==
    CHOOSE i \in 1..Len(t) : Occurs(t, i) /\ \A j \in 1..(i - 1) : ~Occurs(t, j)

AllDigits(t, a, b) ==
    \A k \in a..b : t[k] \in {"0", "1", "2", "3", "4", "5", "6", "7", "8", "9"}

\* the last position of the digits that follow the literal at position i
LastDigit(t, i) ==
    CHOOSE b \in (i + 12)..Len(t) :
        /\ AllDigits(t, i + 12, b)
        /\ b = Len(t) \/ ~AllDigits(t, b + 1, b + 1)

RECURSIVE Pow10(_)
Pow10(n) == IF n = 0 THEN 1 ELSE 10 * Pow10(n - 1)

\* the decimal number written in t[a..b], most significant digit first
RECURSIVE NumberIn(_, _, _)
NumberIn(t, a, b) ==
    IF a > b THEN 0
    ELSE (CHOOSE n \in 0..9 : Digits[n + 1] = t[a]) * Pow10(b - a)
         + NumberIn(t, a + 1, b)

ExpectedStatus(t) ==
    IF HasPattern(t)
    THEN LET i == FirstOccurrence(t)
         IN  NumberIn(t, i + 12, LastDigit(t, i))
    ELSE 500

\* C8: after a failure that is not an APIStatusError, the status code in the
\* error log entry and in the request log entry is the number written by
\* the digits of the first "status code <digits>" in the error's text, and
\* 500 when the text holds no such pattern.
C8_ParsedStatus ==
    (RemoteFailed /\ remote.exc.kind = "Exception") =>
        /\ \A i \in 1..Len(errorLogs) :
              errorLogs[i].error_code = Some(ExpectedStatus(remote.exc.text))
        /\ \A i \in 1..Len(requestLogs) :
              requestLogs[i].status_code = Some(ExpectedStatus(remote.exc.text))

C8_Witness ==
    /\ Done
    /\ remote.exc.kind = "Exception"
    /\ remote.exc.text = Literal \o <<"5">> \o Literal \o <<"0">>
    /\ Len(errorLogs) = 1
    /\ errorLogs[1].error_code = Some(5)
    /\ Len(requestLogs) = 1
    /\ requestLogs[1].status_code = Some(5)

\* the first cap characters of s and "..." when s is longer than cap
Capped(s, cap) ==
    IF Len(s) > cap
    THEN [i \in 1..(cap + 3) |-> IF i <= cap THEN s[i] ELSE "."]
    ELSE s

IsPreviewOf(p, inp) ==
    IF inp.kind = "list"
    THEN LET n == Len(inp.val)
             m == IF n < 5 THEN n ELSE 5
         IN  /\ Len(p) = (IF n > 5 THEN m + 1 ELSE m)
             /\ \A i \in 1..m : p[i] = Capped(inp.val[i], 100)
             /\ n > 5 => p[m + 1] = <<".", ".", ".">>
    ELSE p = Capped(inp.val, 1000)

\* C9: the preview handed to add_error_log is the first min(n,5) items, each
\* cut to 100 characters plus "..." when longer, and one more item "..." when
\* n > 5; for a single string, the string cut to 1000 characters plus "..."
\* when longer.  The input sent to the remote API is the input itself.
C9_Preview ==
    /\ \A i \in 1..Len(errorLogs) :
          IsPreviewOf(errorLogs[i].request_msg.input_truncated, input_text)
    /\ \A i \in 1..Len(apiCalls) : apiCalls[i].input = input_text

C9_Witness ==
    /\ Len(errorLogs) = 1
    /\ Len(apiCalls) = 1
    /\ input_text.kind = "list"
    /\ Len(input_text.val) = 7
    /\ Len(errorLogs[1].request_msg.input_truncated) = 6
    /\ \E i \in 1..5 : /\ Len(input_text.val[i]) > 100
                       /\ Len(errorLogs[1].request_msg.input_truncated[i]) = 103
    /\ \E i \in 1..5 : Len(input_text.val[i]) = 100

\* C10 as claimed: every log entry carries a status code, every error log
\* entry a message, and the two entries of the call the same status code.
C10_StatusNeverNull ==
    /\ \A i \in 1..Len(errorLogs) :
          /\ errorLogs[i].error_code # None
          /\ errorLogs[i].error_log # <<>>
    /\ \A i \in 1..Len(requestLogs) : requestLogs[i].status_code # None
    /\ \A i \in 1..Len(errorLogs) : \A j \in 1..Len(requestLogs) :
          errorLogs[i].error_code = requestLogs[j].status_code

\* the remote call ended in one of the three ways the try statement handles
Handled ==
    \/ RemoteSucceeded
    \/ RemoteFailed /\ remote.exc.kind \in {"APIStatusError", "Exception"}

\* C10 as amended: the two entries of a call carry the same status code;
\* after a success, a structured failure or a generic failure that status
\* code is set and the error log entry has a message; after a failure that
\* neither handler catches the status code is None and the message empty.
C10_StatusSetWhenHandled ==
    /\ \A i \in 1..Len(errorLogs) : \A j \in 1..Len(requestLogs) :
          errorLogs[i].error_code = requestLogs[j].status_code
    /\ \A i \in 1..Len(errorLogs) :
          /\ Handled => /\ errorLogs[i].error_code # None
                        /\ errorLogs[i].error_log # <<>>
          /\ ~Handled => /\ errorLogs[i].error_code = None
                         /\ errorLogs[i].error_log = <<>>
    /\ \A i \in 1..Len(requestLogs) :
          (requestLogs[i].status_code # None) <=> Handled

C10_Witness ==
    /\ Done
    /\ RemoteFailed
    /\ remote.exc.kind = "BaseException"
    /\ Len(errorLogs) = 1
    /\ Len(requestLogs) = 1
    /\ errorLogs[1].error_code = None
    /\ requestLogs[1].status_code = None
====
